---------------------------- MODULE Spec2Model ----------------------------
(***************************************************************************)
(* Provider configuration of terraform-provider-cloudflare.                *)
(*                                                                         *)
(* Two implementations of the same handler are modelled side by side:      *)
(*   - CloudflareProvider.Configure (internal/framework/provider), and     *)
(*   - the closure returned by configure (internal/sdkv2provider).         *)
(* Both read the attributes of the provider block and the process          *)
(* environment, resolve eleven settings, validate them and hand a client   *)
(* to the host.                                                            *)
(*                                                                         *)
(* A Go string is a finite sequence; it is modelled as a sequence of       *)
(* chunks (one-character chunks for numeric strings, so that parsing is    *)
(* done digit by digit), the empty string being << >>.  A null attribute   *)
(* is an attribute outside the domain of the configuration, an unset       *)
(* environment variable a name outside the domain of the environment.      *)
(***************************************************************************)
EXTENDS Integers, Sequences, FiniteSets, TLC

VARIABLES
    provider,   \* which implementation this process serves
    env,        \* the process environment: variable name -> string
    data,       \* the attributes of the provider block of the request
    resp,       \* what the last Configure invocation left behind
    fresh,      \* resp is the outcome for the current data and env
    before,     \* the invocation before the last one: "none", or made with
                \* the "same" data and env as the last one, or with "other"
    steps,      \* changes of environment or configuration so far
    resource,   \* the schema.ResourceData (d) of a cloudflare_dlp_profile
    was,        \* resource as it was when the last resource handler was entered
    ret,        \* what the last resource handler returned and called
    stage,      \* where the host stands with the resource
    conv        \* the last pattern converted to its schema form and back

cfgVars == <<provider, env, data, resp, fresh, before, steps>>

dlpVars == <<resource, was, ret, stage, conv>>

vars == <<provider, env, data, resp, fresh, before, steps, resource, was, ret,
         stage, conv>>

---------------------------------------------------------------------------
(* Bounds of the model. *)

MaxSteps == 1

---------------------------------------------------------------------------
(* Names: schema keys, environment variables, defaults (package consts). *)

EmailSchemaKey == "email"

APIKeySchemaKey == "api_key"

APITokenSchemaKey == "api_token"

APIUserServiceKeySchemaKey == "api_user_service_key"

RPSSchemaKey == "rps"

RetriesSchemaKey == "retries"

MinimumBackoffSchemaKey == "min_backoff"

MaximumBackoffSchemaKey == "max_backoff"

APIClientLoggingSchemaKey == "api_client_logging"

AccountIDSchemaKey == "account_id"

APIHostnameSchemaKey == "api_hostname"

APIBasePathSchemaKey == "api_base_path"

EmailEnvVarKey == "CLOUDFLARE_EMAIL"

APIKeyEnvVarKey == "CLOUDFLARE_API_KEY"

APITokenEnvVarKey == "CLOUDFLARE_API_TOKEN"

APIUserServiceKeyEnvVarKey == "CLOUDFLARE_API_USER_SERVICE_KEY"

RPSEnvVarKey == "CLOUDFLARE_RPS"

RetriesEnvVarKey == "CLOUDFLARE_RETRIES"

MinimumBackoffEnvVar == "CLOUDFLARE_MIN_BACKOFF"

MaximumBackoffEnvVarKey == "CLOUDFLARE_MAX_BACKOFF"

AccountIDEnvVarKey == "CLOUDFLARE_ACCOUNT_ID"

APIHostnameEnvVarKey == "CLOUDFLARE_API_HOSTNAME"

APIBasePathEnvVarKey == "CLOUDFLARE_API_BASE_PATH"

LogEnvVarKey == "TF_LOG"

APIHostnameDefault == <<"api.cloudflare.com">>

APIBasePathDefault == <<"/client/v4">>

RPSDefault == <<"4">>

RetriesDefault == <<"3">>

MinimumBackoffDefault == <<"1">>

MaximumBackoffDefault == <<"3", "0">>

\* strconv.IntSize on the 64-bit platforms the provider is built for
IntSize == 64

StringAttrs ==
    {APIHostnameSchemaKey, APIBasePathSchemaKey, AccountIDSchemaKey,
     APIKeySchemaKey, APITokenSchemaKey, APIUserServiceKeySchemaKey,
     EmailSchemaKey}

IntAttrs ==
    {RPSSchemaKey, RetriesSchemaKey, MinimumBackoffSchemaKey,
     MaximumBackoffSchemaKey}

BoolAttrs == {APIClientLoggingSchemaKey}

StringEnvVars ==
    {APIHostnameEnvVarKey, APIBasePathEnvVarKey, AccountIDEnvVarKey,
     APIKeyEnvVarKey, APITokenEnvVarKey, APIUserServiceKeyEnvVarKey,
     EmailEnvVarKey}

IntEnvVars ==
    {RPSEnvVarKey, RetriesEnvVarKey, MinimumBackoffEnvVar,
     MaximumBackoffEnvVarKey}

---------------------------------------------------------------------------
(* Inputs the model draws from. *)

\* a string whose presence makes a URL unparsable
BadEscape == "%zz"

ExplicitStrings(k) ==
    IF k = APIHostnameSchemaKey
    THEN {<< >>, <<"explicit">>, <<BadEscape>>}
    ELSE {<< >>, <<"explicit">>}

ExplicitInts == {-1, 0, IntSize, IntSize + 1}

EnvStrings == {<< >>, <<"fromenv">>}

EnvIntStrings == {<< >>, <<"6", "4">>, <<"6", "5">>, <<"x">>, <<"-", "1">>}

LogLevels == {<<"DEBUG">>, <<"WARN">>}

EmptyEnv == [k \in {} |-> << >>]

\* a shell that exports a token and every tuning variable
ExportedEnv ==
    [k \in {APITokenEnvVarKey, APIHostnameEnvVarKey, APIBasePathEnvVarKey,
            AccountIDEnvVarKey, RPSEnvVarKey, RetriesEnvVarKey,
            MinimumBackoffEnvVar, MaximumBackoffEnvVarKey} |->
        IF k \in IntEnvVars THEN <<"6", "4">> ELSE <<"fromenv">>]

\* environments a process starts in: nothing set, a token exported, a
\* legacy key with its email exported, or everything but the legacy
\* credentials exported
InitialEnvs ==
    {EmptyEnv,
     [k \in {APITokenEnvVarKey} |-> <<"fromenv">>],
     [k \in {APIKeyEnvVarKey, EmailEnvVarKey} |-> <<"fromenv">>],
     ExportedEnv}

---------------------------------------------------------------------------
(* Library and helper functions the handlers call. *)

Range(s) == {s[i] : i \in DOMAIN s}

DigitValue(c) ==
    CASE c = "0" -> 0 [] c = "1" -> 1 [] c = "2" -> 2 [] c = "3" -> 3
      [] c = "4" -> 4 [] c = "5" -> 5 [] c = "6" -> 6 [] c = "7" -> 7
      [] c = "8" -> 8 [] c = "9" -> 9 [] OTHER -> -1

DigitChar(n) ==
    CASE n = 0 -> "0" [] n = 1 -> "1" [] n = 2 -> "2" [] n = 3 -> "3"
      [] n = 4 -> "4" [] n = 5 -> "5" [] n = 6 -> "6" [] n = 7 -> "7"
      [] n = 8 -> "8" [] OTHER -> "9"

RECURSIVE ParseDigits(_, _)
\* the digits of s read in base 10 onto acc; -1 when a chunk is no digit
ParseDigits(s, acc) ==
    IF s = << >> THEN acc
    ELSE IF DigitValue(Head(s)) < 0 THEN -1
    ELSE ParseDigits(Tail(s), acc * 10 + DigitValue(Head(s)))

\* strconv.ParseInt(s, 10, 64): an optional sign and at least one digit;
\* on a syntax error the value is 0.  (The strings of the model stay far
\* from the 64-bit range, so the range error does not arise.)
ParseInt(s) ==
    IF s = << >> THEN [value |-> 0, err |-> TRUE]
    ELSE LET signed == Head(s) \in {"+", "-"}
             body == IF signed THEN Tail(s) ELSE s
             n == ParseDigits(body, 0)
         IN  IF body = << >> \/ n < 0 THEN [value |-> 0, err |-> TRUE]
             ELSE [value |-> IF Head(s) = "-" THEN 0 - n ELSE n, err |-> FALSE]

RECURSIVE FormatNat(_)
FormatNat(n) ==
    IF n < 10 THEN <<DigitChar(n)>>
    ELSE Append(FormatNat(n \div 10), DigitChar(n % 10))

\* the %d verb of fmt.Sprintf
FormatInt(n) == IF n < 0 THEN <<"-">> \o FormatNat(0 - n) ELSE FormatNat(n)

\* the %q verb of fmt.Sprintf
Quote(s) == <<"\"">> \o s \o <<"\"">>

\* GetDefaultFromEnv built on os.LookupEnv alone: a variable that is present
\* wins even when it is empty
GetDefaultFromEnvPresent(e, key, defaultValue) ==
    IF key \in DOMAIN e THEN e[key] ELSE defaultValue

\* utils.GetDefaultFromEnv: the variable's value when it is present and
\* not empty, else the fallback
GetDefaultFromEnv(e, key, defaultValue) ==
    IF key \in DOMAIN e /\ e[key] # << >> THEN e[key] ELSE defaultValue

\* logging.IsDebugOrHigher
IsDebugOrHigher(e) ==
    LogEnvVarKey \in DOMAIN e /\ e[LogEnvVarKey] \in {<<"DEBUG">>, <<"TRACE">>}

\* req.TerraformVersion / p.TerraformVersion
TerraformVersion == <<"1.3.0">>

\* meta.SDKVersionString()
SDKVersionString == <<"2.24.1">>

\* CloudflareProvider.version / the version argument of configure
version == <<"dev">>

\* fmt.Sprintf(consts.UserAgentDefault, tf, sdk, version)
UserAgentString(tf, sdk, v) ==
    <<"terraform/">> \o tf \o <<" terraform-plugin-sdk/">> \o sdk
        \o <<" terraform-provider-cloudflare/">> \o v

\* cloudflare.Option values: the constructor, its numeric arguments, its
\* string arguments
UsingRateLimit(rps) == [kind |-> "UsingRateLimit", ints |-> <<rps>>, strs |-> << >>]

UsingRetryPolicy(retries, minB, maxB) ==
    [kind |-> "UsingRetryPolicy", ints |-> <<retries, minB, maxB>>, strs |-> << >>]

BaseURL(url) == [kind |-> "BaseURL", ints |-> << >>, strs |-> <<url>>]

Debug(on) == [kind |-> "Debug", ints |-> <<IF on THEN 1 ELSE 0>>, strs |-> << >>]

UserAgent(ua) == [kind |-> "UserAgent", ints |-> << >>, strs |-> <<ua>>]

UsingAccount(id) == [kind |-> "UsingAccount", ints |-> << >>, strs |-> <<id>>]

\* the zero Config struct
ZeroConfig ==
    [APIToken |-> << >>, APIKey |-> << >>, Email |-> << >>,
     APIUserServiceKey |-> << >>, Options |-> << >>]

\* a nil *cloudflare.API
NilClient == [nil |-> TRUE, cfg |-> ZeroConfig]

OptionsOfKind(options, kind) ==
    {options[i] : i \in {j \in DOMAIN options : options[j].kind = kind}}

\* Config.Client: assembles the client from the credentials and options;
\* fails when the composed base URL does not parse
ClientOf(config) ==
    IF \E o \in OptionsOfKind(config.Options, "BaseURL") : BadEscape \in Range(o.strs[1])
    THEN [client |-> NilClient,
          err |-> <<"error creating new Cloudflare client: invalid URL escape">>]
    ELSE [client |-> [nil |-> FALSE, cfg |-> config], err |-> << >>]

---------------------------------------------------------------------------
(* The activation record of one Configure invocation: the local variables, *)
(* the response being filled, and where the invocation stands.             *)

ZeroOption == [kind |-> "", ints |-> << >>, strs |-> << >>]

ZeroFrame ==
    [email |-> << >>, apiKey |-> << >>, apiToken |-> << >>,
     apiUserServiceKey |-> << >>, rps |-> 0, retries |-> 0, minBackOff |-> 0,
     maxBackOff |-> 0, accountID |-> << >>, baseHostname |-> << >>,
     basePath |-> << >>,
     baseURL |-> ZeroOption, limitOpt |-> ZeroOption, retryOpt |-> ZeroOption,
     options |-> << >>, ua |-> << >>, config |-> ZeroConfig,
     client |-> NilClient, err |-> << >>,
     Diagnostics |-> << >>,
     DataSourceData |-> NilClient, ResourceData |-> NilClient,
     result |-> NilClient,
     clientCalls |-> 0, returned |-> FALSE]

ErrorDiagnostic(summary, detail) ==
    [Severity |-> "Error", Summary |-> summary, Detail |-> detail]

TooLargeMessage(name, value) ==
    <<name, " value of ">> \o FormatInt(value)
        \o <<" is too large, try a smaller value.">>

EmailSummary == Quote(<<EmailSchemaKey>>) \o <<" is not set correctly">>

EmailDetail ==
    Quote(<<EmailSchemaKey>>) \o <<" is required with ">>
        \o Quote(<<APIKeySchemaKey>>) \o <<" and was not configured">>

MustProvideMessage ==
    <<"must provide one of ">> \o Quote(<<APIKeySchemaKey>>) \o <<", ">>
        \o Quote(<<APITokenSchemaKey>>) \o <<" or ">>
        \o Quote(<<APIUserServiceKeySchemaKey>>) \o <<".">>

---------------------------------------------------------------------------
(* CloudflareProvider.Configure (terraform-plugin-framework).              *)

\* types.String / types.Int64 accessors of the decoded model
IsNull(d, k) == k \notin DOMAIN d

ValueString(d, k) == IF k \in DOMAIN d THEN d[k] ELSE << >>

ValueInt64(d, k) == IF k \in DOMAIN d THEN d[k] ELSE 0

\* FwEnter with the locals and the response kept from one invocation to
\* the next (package-level variables instead of locals)
FwEnterStale(prev, d, e) == [prev EXCEPT !.returned = FALSE, !.clientCalls = 0]

\* the var block and the decoding of the configuration: every local starts
\* at its zero value and the response is the host's new, empty one
FwEnter(prev, d, e) == ZeroFrame

FwResolveBaseHostname(f, d, e) ==
    [f EXCEPT !.baseHostname =
        IF ValueString(d, APIHostnameSchemaKey) # << >>
        THEN ValueString(d, APIHostnameSchemaKey)
        ELSE GetDefaultFromEnv(e, APIHostnameEnvVarKey, APIHostnameDefault)]

FwResolveBasePath(f, d, e) ==
    LET basePath == IF ValueString(d, APIBasePathSchemaKey) # << >>
                    THEN ValueString(d, APIBasePathSchemaKey)
                    ELSE GetDefaultFromEnv(e, APIBasePathEnvVarKey, APIBasePathDefault)
    IN  [f EXCEPT !.basePath = basePath,
                  !.baseURL = BaseURL(<<"https://">> \o f.baseHostname \o basePath)]

FwResolveRPS(f, d, e) ==
    LET rps == IF ~IsNull(d, RPSSchemaKey)
               THEN ValueInt64(d, RPSSchemaKey)
               ELSE ParseInt(GetDefaultFromEnv(e, RPSEnvVarKey, RPSDefault)).value
    IN  [f EXCEPT !.rps = rps, !.limitOpt = UsingRateLimit(rps)]

FwResolveRetries(f, d, e) ==
    [f EXCEPT !.retries =
        IF ~IsNull(d, RetriesSchemaKey)
        THEN ValueInt64(d, RetriesSchemaKey)
        ELSE ParseInt(GetDefaultFromEnv(e, RetriesEnvVarKey, RetriesDefault)).value]

FwResolveMinBackOff(f, d, e) ==
    [f EXCEPT !.minBackOff =
        IF ~IsNull(d, MinimumBackoffSchemaKey)
        THEN ValueInt64(d, MaximumBackoffSchemaKey)
        ELSE ParseInt(GetDefaultFromEnv(e, MinimumBackoffEnvVar,
                                        MinimumBackoffDefault)).value]

FwResolveMaxBackOff(f, d, e) ==
    [f EXCEPT !.maxBackOff =
        IF ~IsNull(d, MinimumBackoffSchemaKey)
        THEN ValueInt64(d, MaximumBackoffSchemaKey)
        ELSE ParseInt(GetDefaultFromEnv(e, MaximumBackoffEnvVarKey,
                                        MaximumBackoffDefault)).value]

FwAddError(f, summary, detail) ==
    [f EXCEPT !.Diagnostics = Append(@, ErrorDiagnostic(summary, detail))]

\* FwCheckRetries without its return statement
FwCheckRetriesNoReturn(f) ==
    IF f.retries > IntSize
    THEN FwAddError(f, TooLargeMessage(RetriesSchemaKey, f.retries),
                    TooLargeMessage(RetriesSchemaKey, f.retries))
    ELSE f

FwCheckRetries(f) ==
    IF f.retries > IntSize
    THEN [FwAddError(f, TooLargeMessage(RetriesSchemaKey, f.retries),
                     TooLargeMessage(RetriesSchemaKey, f.retries))
            EXCEPT !.returned = TRUE]
    ELSE f

FwCheckMinBackOff(f) ==
    IF f.minBackOff > IntSize
    THEN [FwAddError(f, TooLargeMessage(MinimumBackoffSchemaKey, f.minBackOff),
                     TooLargeMessage(MinimumBackoffSchemaKey, f.minBackOff))
            EXCEPT !.returned = TRUE]
    ELSE f

FwCheckMaxBackOff(f) ==
    IF f.maxBackOff > IntSize
    THEN [FwAddError(f, TooLargeMessage(MaximumBackoffSchemaKey, f.maxBackOff),
                     TooLargeMessage(MaximumBackoffSchemaKey, f.maxBackOff))
            EXCEPT !.returned = TRUE]
    ELSE f

FwBuildOptions(f, e) ==
    LET retryOpt == UsingRetryPolicy(f.retries, f.minBackOff, f.maxBackOff)
        ua == UserAgentString(TerraformVersion, SDKVersionString, version)
        options == <<f.limitOpt, retryOpt, f.baseURL, Debug(IsDebugOrHigher(e)),
                     UserAgent(ua)>>
    IN  [f EXCEPT !.retryOpt = retryOpt, !.ua = ua, !.options = options,
                  !.config = [ZeroConfig EXCEPT !.Options = options]]

FwResolveAPIToken(f, d, e) ==
    LET apiToken == IF ~IsNull(d, APITokenSchemaKey)
                    THEN ValueString(d, APITokenSchemaKey)
                    ELSE GetDefaultFromEnv(e, APITokenEnvVarKey, << >>)
    IN  [f EXCEPT !.apiToken = apiToken,
                  !.config.APIToken = IF apiToken # << >> THEN apiToken ELSE @]

FwResolveAPIKey(f, d, e) ==
    LET apiKey == IF ~IsNull(d, APIKeySchemaKey)
                  THEN ValueString(d, APIKeySchemaKey)
                  ELSE GetDefaultFromEnv(e, APIKeyEnvVarKey, << >>)
        email == IF ~IsNull(d, EmailSchemaKey)
                 THEN ValueString(d, EmailSchemaKey)
                 ELSE GetDefaultFromEnv(e, EmailEnvVarKey, << >>)
    IN  IF apiKey = << >> THEN [f EXCEPT !.apiKey = apiKey]
        ELSE IF email = << >>
        THEN [FwAddError([f EXCEPT !.apiKey = apiKey, !.config.APIKey = apiKey,
                                   !.email = email],
                         EmailSummary, EmailDetail)
                EXCEPT !.returned = TRUE]
        ELSE [f EXCEPT !.apiKey = apiKey, !.config.APIKey = apiKey,
                       !.email = email, !.config.Email = email]

FwResolveAPIUserServiceKey(f, d, e) ==
    LET apiUserServiceKey ==
            IF ~IsNull(d, APIUserServiceKeySchemaKey)
            THEN ValueString(d, APIUserServiceKeySchemaKey)
            ELSE GetDefaultFromEnv(e, APIUserServiceKeyEnvVarKey, << >>)
    IN  [f EXCEPT !.apiUserServiceKey = apiUserServiceKey,
                  !.config.APIUserServiceKey =
                      IF apiUserServiceKey # << >> THEN apiUserServiceKey ELSE @]

\* FwCheckCredentials without its return statement
FwCheckCredentialsNoReturn(f) ==
    IF f.apiKey = << >> /\ f.apiToken = << >> /\ f.apiUserServiceKey = << >>
    THEN FwAddError(f, MustProvideMessage, MustProvideMessage)
    ELSE f

FwCheckCredentials(f) ==
    IF f.apiKey = << >> /\ f.apiToken = << >> /\ f.apiUserServiceKey = << >>
    THEN [FwAddError(f, MustProvideMessage, MustProvideMessage)
            EXCEPT !.returned = TRUE]
    ELSE f

\* FwResolveAccountID without the test for an empty account id
FwResolveAccountIDAlways(f, d, e) ==
    LET accountID == IF ~IsNull(d, AccountIDSchemaKey)
                     THEN ValueString(d, AccountIDSchemaKey)
                     ELSE GetDefaultFromEnv(e, AccountIDEnvVarKey, << >>)
    IN  [f EXCEPT !.accountID = accountID,
                  !.options = Append(@, UsingAccount(accountID))]

FwResolveAccountID(f, d, e) ==
    LET accountID == IF ~IsNull(d, AccountIDSchemaKey)
                     THEN ValueString(d, AccountIDSchemaKey)
                     ELSE GetDefaultFromEnv(e, AccountIDEnvVarKey, << >>)
    IN  [f EXCEPT !.accountID = accountID,
                  !.options = IF accountID # << >>
                              THEN Append(@, UsingAccount(accountID)) ELSE @]

FwBuildClient(f) ==
    LET config == [f.config EXCEPT !.Options = f.options]
        made == ClientOf(config)
        g == [f EXCEPT !.config = config, !.client = made.client,
                       !.err = made.err, !.clientCalls = @ + 1]
    IN  IF made.err # << >>
        THEN [FwAddError(g, <<"failed to initialize a new client">>, made.err)
                EXCEPT !.returned = TRUE]
        ELSE g

\* FwHandOver that forgets resp.ResourceData
FwHandOverDataSourceOnly(f) ==
    [f EXCEPT !.DataSourceData = f.client, !.returned = TRUE]

FwHandOver(f) ==
    [f EXCEPT !.DataSourceData = f.client, !.ResourceData = f.client,
              !.returned = TRUE]

\* the statements of the handler, in program order
FwStages ==
    <<"baseHostname", "basePath", "rps", "retries", "minBackOff", "maxBackOff",
      "checkRetries", "checkMinBackOff", "checkMaxBackOff", "options",
      "apiToken", "apiKey", "apiUserServiceKey", "checkCredentials",
      "accountID", "client", "handOver">>

FwStage(name, f, d, e) ==
    CASE name = "baseHostname" -> FwResolveBaseHostname(f, d, e)
      [] name = "basePath" -> FwResolveBasePath(f, d, e)
      [] name = "rps" -> FwResolveRPS(f, d, e)
      [] name = "retries" -> FwResolveRetries(f, d, e)
      [] name = "minBackOff" -> FwResolveMinBackOff(f, d, e)
      [] name = "maxBackOff" -> FwResolveMaxBackOff(f, d, e)
      [] name = "checkRetries" -> FwCheckRetries(f)
      [] name = "checkMinBackOff" -> FwCheckMinBackOff(f)
      [] name = "checkMaxBackOff" -> FwCheckMaxBackOff(f)
      [] name = "options" -> FwBuildOptions(f, e)
      [] name = "apiToken" -> FwResolveAPIToken(f, d, e)
      [] name = "apiKey" -> FwResolveAPIKey(f, d, e)
      [] name = "apiUserServiceKey" -> FwResolveAPIUserServiceKey(f, d, e)
      [] name = "checkCredentials" -> FwCheckCredentials(f)
      [] name = "accountID" -> FwResolveAccountID(f, d, e)
      [] name = "client" -> FwBuildClient(f)
      [] OTHER -> FwHandOver(f)

RECURSIVE FwRun(_, _, _, _)
\* runs the statements from the i-th on, until one of them returns
FwRun(i, f, d, e) ==
    IF f.returned \/ i > Len(FwStages) THEN f
    ELSE CHOOSE r \in {FwRun(i + 1, g, d, e) : g \in {FwStage(FwStages[i], f, d, e)}} : TRUE

FrameworkConfigure(prev, d, e) ==
    CHOOSE r \in {FwRun(1, f, d, e) : f \in {FwEnter(prev, d, e)}} : TRUE

---------------------------------------------------------------------------
(* configure (terraform-plugin-sdk/v2).                                    *)

\* schema.ResourceData.Get: the attribute, or the zero value of its type
GetString(d, k) == IF k \in DOMAIN d THEN d[k] ELSE << >>

GetInt(d, k) == IF k \in DOMAIN d THEN d[k] ELSE 0

\* schema.ResourceData.GetOk: ok only for an attribute that is set to
\* something other than the zero value of its type
GetOkString(d, k) == k \in DOMAIN d /\ d[k] # << >>

GetOkInt(d, k) == k \in DOMAIN d /\ d[k] # 0

\* SdkEnter with the locals and diags kept from one invocation to the next
SdkEnterStale(prev, d, e) == [prev EXCEPT !.returned = FALSE, !.clientCalls = 0]

\* the var block of the closure: every local starts at its zero value
SdkEnter(prev, d, e) == ZeroFrame

SdkResolveBaseHostname(f, d, e) ==
    [f EXCEPT !.baseHostname =
        IF GetString(d, APIHostnameSchemaKey) # << >>
        THEN GetString(d, APIHostnameSchemaKey)
        ELSE GetDefaultFromEnv(e, APIHostnameEnvVarKey, APIHostnameDefault)]

\* SdkResolveBasePath joining the two parts the way path.Join does, with
\* a separator between them
SdkResolveBasePathJoined(f, d, e) ==
    LET basePath == IF GetString(d, APIBasePathSchemaKey) # << >>
                    THEN GetString(d, APIBasePathSchemaKey)
                    ELSE GetDefaultFromEnv(e, APIBasePathEnvVarKey, APIBasePathDefault)
    IN  [f EXCEPT !.basePath = basePath,
                  !.baseURL = BaseURL(<<"https://">> \o f.baseHostname
                                          \o <<"/">> \o basePath)]

SdkResolveBasePath(f, d, e) ==
    LET basePath == IF GetString(d, APIBasePathSchemaKey) # << >>
                    THEN GetString(d, APIBasePathSchemaKey)
                    ELSE GetDefaultFromEnv(e, APIBasePathEnvVarKey, APIBasePathDefault)
    IN  [f EXCEPT !.basePath = basePath,
                  !.baseURL = BaseURL(<<"https://">> \o f.baseHostname \o basePath)]

SdkResolveRPS(f, d, e) ==
    LET rps == IF GetOkInt(d, RPSSchemaKey)
               THEN GetInt(d, RPSSchemaKey)
               ELSE ParseInt(GetDefaultFromEnv(e, RPSEnvVarKey, RPSDefault)).value
    IN  [f EXCEPT !.rps = rps, !.limitOpt = UsingRateLimit(rps)]

\* SdkResolveRetries reading the variable with os.Getenv, without the
\* default
SdkResolveRetriesNoDefault(f, d, e) ==
    [f EXCEPT !.retries =
        IF GetOkInt(d, RetriesSchemaKey)
        THEN GetInt(d, RetriesSchemaKey)
        ELSE ParseInt(GetDefaultFromEnv(e, RetriesEnvVarKey, << >>)).value]

SdkResolveRetries(f, d, e) ==
    [f EXCEPT !.retries =
        IF GetOkInt(d, RetriesSchemaKey)
        THEN GetInt(d, RetriesSchemaKey)
        ELSE ParseInt(GetDefaultFromEnv(e, RetriesEnvVarKey, RetriesDefault)).value]

SdkResolveMinBackOff(f, d, e) ==
    [f EXCEPT !.minBackOff =
        IF GetOkInt(d, MinimumBackoffSchemaKey)
        THEN GetInt(d, MinimumBackoffSchemaKey)
        ELSE ParseInt(GetDefaultFromEnv(e, MinimumBackoffEnvVar,
                                        MinimumBackoffDefault)).value]

SdkResolveMaxBackOff(f, d, e) ==
    [f EXCEPT !.maxBackOff =
        IF GetOkInt(d, MaximumBackoffSchemaKey)
        THEN GetInt(d, MaximumBackoffSchemaKey)
        ELSE ParseInt(GetDefaultFromEnv(e, MaximumBackoffEnvVarKey,
                                        MaximumBackoffDefault)).value]

\* diags = append(diags, diag.Diagnostic{Severity: diag.Error, Summary: s})
SdkAppendError(f, summary) ==
    [f EXCEPT !.Diagnostics = Append(@, ErrorDiagnostic(summary, << >>))]

SdkCheckRetries(f) ==
    IF f.retries > IntSize
    THEN [SdkAppendError(f, TooLargeMessage(RetriesSchemaKey, f.retries))
            EXCEPT !.returned = TRUE]
    ELSE f

SdkCheckMinBackOff(f) ==
    IF f.minBackOff > IntSize
    THEN [SdkAppendError(f, TooLargeMessage(MinimumBackoffSchemaKey, f.minBackOff))
            EXCEPT !.returned = TRUE]
    ELSE f

\* SdkCheckMaxBackOff without its return statement
SdkCheckMaxBackOffNoReturn(f) ==
    IF f.maxBackOff > IntSize
    THEN SdkAppendError(f, TooLargeMessage(MaximumBackoffSchemaKey, f.maxBackOff))
    ELSE f

SdkCheckMaxBackOff(f) ==
    IF f.maxBackOff > IntSize
    THEN [SdkAppendError(f, TooLargeMessage(MaximumBackoffSchemaKey, f.maxBackOff))
            EXCEPT !.returned = TRUE]
    ELSE f

SdkBuildOptions(f, e) ==
    LET retryOpt == UsingRetryPolicy(f.retries, f.minBackOff, f.maxBackOff)
        ua == UserAgentString(TerraformVersion, SDKVersionString, version)
        options == <<f.limitOpt, retryOpt, f.baseURL, Debug(IsDebugOrHigher(e)),
                     UserAgent(ua)>>
    IN  [f EXCEPT !.retryOpt = retryOpt, !.ua = ua, !.options = options,
                  !.config = [ZeroConfig EXCEPT !.Options = options]]

SdkResolveAPIToken(f, d, e) ==
    LET apiToken == IF GetOkString(d, APITokenSchemaKey)
                    THEN GetString(d, APITokenSchemaKey)
                    ELSE GetDefaultFromEnv(e, APITokenEnvVarKey, << >>)
    IN  [f EXCEPT !.apiToken = apiToken,
                  !.config.APIToken = IF apiToken # << >> THEN apiToken ELSE @]

\* SdkResolveAPIKey with the email resolved and stored outside the test of
\* the API key
SdkResolveAPIKeyEmailAlways(f, d, e) ==
    LET apiKey == IF GetOkString(d, APIKeySchemaKey)
                  THEN GetString(d, APIKeySchemaKey)
                  ELSE GetDefaultFromEnv(e, APIKeyEnvVarKey, << >>)
        email == IF GetOkString(d, EmailSchemaKey)
                 THEN GetString(d, EmailSchemaKey)
                 ELSE GetDefaultFromEnv(e, EmailEnvVarKey, << >>)
    IN  IF apiKey # << >> /\ email = << >>
        THEN [SdkAppendError([f EXCEPT !.apiKey = apiKey, !.config.APIKey = apiKey,
                                       !.email = email],
                             EmailSummary)
                EXCEPT !.returned = TRUE]
        ELSE [f EXCEPT !.apiKey = apiKey,
                       !.config.APIKey = IF apiKey # << >> THEN apiKey ELSE @,
                       !.email = email, !.config.Email = email]

SdkResolveAPIKey(f, d, e) ==
    LET apiKey == IF GetOkString(d, APIKeySchemaKey)
                  THEN GetString(d, APIKeySchemaKey)
                  ELSE GetDefaultFromEnv(e, APIKeyEnvVarKey, << >>)
        email == IF GetOkString(d, EmailSchemaKey)
                 THEN GetString(d, EmailSchemaKey)
                 ELSE GetDefaultFromEnv(e, EmailEnvVarKey, << >>)
    IN  IF apiKey = << >> THEN [f EXCEPT !.apiKey = apiKey]
        ELSE IF email = << >>
        THEN [SdkAppendError([f EXCEPT !.apiKey = apiKey, !.config.APIKey = apiKey,
                                       !.email = email],
                             EmailSummary)
                EXCEPT !.returned = TRUE]
        ELSE [f EXCEPT !.apiKey = apiKey, !.config.APIKey = apiKey,
                       !.email = email, !.config.Email = email]

SdkResolveAPIUserServiceKey(f, d, e) ==
    LET apiUserServiceKey ==
            IF GetOkString(d, APIUserServiceKeySchemaKey)
            THEN GetString(d, APIUserServiceKeySchemaKey)
            ELSE GetDefaultFromEnv(e, APIUserServiceKeyEnvVarKey, << >>)
    IN  [f EXCEPT !.apiUserServiceKey = apiUserServiceKey,
                  !.config.APIUserServiceKey =
                      IF apiUserServiceKey # << >> THEN apiUserServiceKey ELSE @]

SdkCheckCredentials(f) ==
    IF f.apiKey = << >> /\ f.apiToken = << >> /\ f.apiUserServiceKey = << >>
    THEN [SdkAppendError(f, MustProvideMessage) EXCEPT !.returned = TRUE]
    ELSE f

SdkResolveAccountID(f, d, e) ==
    LET accountID == IF GetOkString(d, AccountIDSchemaKey)
                     THEN GetString(d, AccountIDSchemaKey)
                     ELSE GetDefaultFromEnv(e, AccountIDEnvVarKey, << >>)
    IN  [f EXCEPT !.accountID = accountID,
                  !.options = IF accountID # << >>
                              THEN Append(@, UsingAccount(accountID)) ELSE @]

\* on an error of config.Client the closure returns nil and diag.FromErr(err)
SdkBuildClient(f) ==
    LET config == [f.config EXCEPT !.Options = f.options]
        made == ClientOf(config)
        g == [f EXCEPT !.config = config, !.client = made.client,
                       !.err = made.err, !.clientCalls = @ + 1]
    IN  IF made.err # << >>
        THEN [g EXCEPT !.Diagnostics = <<ErrorDiagnostic(made.err, << >>)>>,
                       !.returned = TRUE]
        ELSE g

SdkReturnClient(f) == [f EXCEPT !.result = f.client, !.returned = TRUE]

\* the statements of the closure, in program order
SdkStages ==
    <<"baseHostname", "basePath", "rps", "retries", "minBackOff", "maxBackOff",
      "checkRetries", "checkMinBackOff", "checkMaxBackOff", "options",
      "apiToken", "apiKey", "apiUserServiceKey", "checkCredentials",
      "accountID", "client", "returnClient">>

SdkStage(name, f, d, e) ==
    CASE name = "baseHostname" -> SdkResolveBaseHostname(f, d, e)
      [] name = "basePath" -> SdkResolveBasePath(f, d, e)
      [] name = "rps" -> SdkResolveRPS(f, d, e)
      [] name = "retries" -> SdkResolveRetries(f, d, e)
      [] name = "minBackOff" -> SdkResolveMinBackOff(f, d, e)
      [] name = "maxBackOff" -> SdkResolveMaxBackOff(f, d, e)
      [] name = "checkRetries" -> SdkCheckRetries(f)
      [] name = "checkMinBackOff" -> SdkCheckMinBackOff(f)
      [] name = "checkMaxBackOff" -> SdkCheckMaxBackOff(f)
      [] name = "options" -> SdkBuildOptions(f, e)
      [] name = "apiToken" -> SdkResolveAPIToken(f, d, e)
      [] name = "apiKey" -> SdkResolveAPIKey(f, d, e)
      [] name = "apiUserServiceKey" -> SdkResolveAPIUserServiceKey(f, d, e)
      [] name = "checkCredentials" -> SdkCheckCredentials(f)
      [] name = "accountID" -> SdkResolveAccountID(f, d, e)
      [] name = "client" -> SdkBuildClient(f)
      [] OTHER -> SdkReturnClient(f)

RECURSIVE SdkRun(_, _, _, _)
\* runs the statements from the i-th on, until one of them returns
SdkRun(i, f, d, e) ==
    IF f.returned \/ i > Len(SdkStages) THEN f
    ELSE CHOOSE r \in {SdkRun(i + 1, g, d, e) : g \in {SdkStage(SdkStages[i], f, d, e)}} : TRUE

SDKv2Configure(prev, d, e) ==
    CHOOSE r \in {SdkRun(1, f, d, e) : f \in {SdkEnter(prev, d, e)}} : TRUE

---------------------------------------------------------------------------
(* The process: the host changes the environment or the provider block,    *)
(* then asks the provider to configure itself.                             *)

Extend(fn, k, v) == [x \in DOMAIN fn \cup {k} |-> IF x = k THEN v ELSE fn[x]]

EnvValues(k) ==
    IF k \in IntEnvVars THEN EnvIntStrings
    ELSE IF k = LogEnvVarKey THEN LogLevels
    ELSE EnvStrings

AttrValues(k) ==
    IF k \in IntAttrs THEN ExplicitInts
    ELSE IF k \in BoolAttrs THEN BOOLEAN
    ELSE ExplicitStrings(k)

---------------------------------------------------------------------------
(* The cloudflare_dlp_profile resource (resource_cloudflare_dlp_profile).  *)

DLPProfileTypeCustom == "custom"

DLPProfileTypePredefined == "predefined"

\* cloudflare.DLPPattern values
DLPPatterns == [Regex : {"", "[0-9]+"}, Validation : {"", "luhn"}]

\* the zero value of cloudflare.DLPPattern
ZeroPattern == [Regex |-> "", Validation |-> ""]

\* a Go map[string]interface{} is a function on the keys it holds
EmptyMap == [k \in {} |-> ""]

dlpPatternToSchema(pattern) ==
    LET withRegex == IF pattern.Regex # ""
                     THEN Extend(EmptyMap, "regex", pattern.Regex)
                     ELSE EmptyMap
    IN  IF pattern.Validation # ""
        THEN Extend(withRegex, "validation", pattern.Validation)
        ELSE withRegex

\* pattern["regex"].(string) panics on a map without the key; the
\* assertion of "validation" is of the comma-ok form
dlpPatternToAPI(pattern) ==
    IF "regex" \notin DOMAIN pattern
    THEN [panic |-> TRUE, value |-> ZeroPattern]
    ELSE [panic |-> FALSE,
          value |-> [Regex |-> pattern["regex"],
                     Validation |-> IF "validation" \in DOMAIN pattern
                                    THEN pattern["validation"] ELSE ""]]

\* a cloudflare.DLPEntry; the pointers Enabled and Pattern are sequences
\* of length at most one, nil being << >>
ZeroEntry ==
    [ID |-> "", Name |-> "", Enabled |-> << >>, Pattern |-> << >>, Type |-> ""]

dlpEntryToSchema(entry) ==
    LET withID == IF entry.ID # "" THEN Extend(EmptyMap, "id", entry.ID) ELSE EmptyMap
        withName == IF entry.Name # "" THEN Extend(withID, "name", entry.Name) ELSE withID
        withEnabled == Extend(withName, "enabled",
                              entry.Enabled # << >> /\ entry.Enabled[1] = TRUE)
    IN  IF entry.Pattern # << >>
        THEN Extend(withEnabled, "pattern", <<dlpPatternToSchema(entry.Pattern[1])>>)
        ELSE withEnabled

dlpEntryToAPI(entryType, entryMap) ==
    IF "name" \notin DOMAIN entryMap
    THEN [panic |-> TRUE, value |-> ZeroEntry]
    ELSE LET hasPattern == "pattern" \in DOMAIN entryMap /\ Len(entryMap["pattern"]) # 0
             newPattern == IF hasPattern THEN dlpPatternToAPI(entryMap["pattern"][1])
                           ELSE [panic |-> FALSE, value |-> ZeroPattern]
         IN  [panic |-> newPattern.panic,
              value |-> [ID |-> IF "id" \in DOMAIN entryMap THEN entryMap["id"] ELSE "",
                         Name |-> entryMap["name"],
                         Enabled |-> <<"enabled" \in DOMAIN entryMap
                                         /\ entryMap["enabled"] = TRUE>>,
                         Pattern |-> IF hasPattern THEN <<newPattern.value>> ELSE << >>,
                         Type |-> entryType]]

\* what schema.ResourceData hands out for one element of the "pattern"
\* list and of the "entry" set: every key of the element's schema, with
\* the zero value of its type where nothing is stored
ReadPattern(m) ==
    [k \in {"regex", "validation"} |-> IF k \in DOMAIN m THEN m[k] ELSE ""]

ReadPatternList(m) ==
    IF "pattern" \in DOMAIN m /\ Len(m["pattern"]) # 0
    THEN <<ReadPattern(m["pattern"][1])>>
    ELSE << >>

ReadEntry(m) ==
    [k \in {"id", "name", "enabled", "pattern"} |->
        CASE k = "id" -> IF "id" \in DOMAIN m THEN m["id"] ELSE ""
          [] k = "name" -> IF "name" \in DOMAIN m THEN m["name"] ELSE ""
          [] k = "enabled" -> "enabled" \in DOMAIN m /\ m["enabled"] = TRUE
          [] OTHER -> ReadPatternList(m)]

\* a schema.ResourceData of the resource: the ID and the attributes
ZeroResourceData ==
    [Id |-> << >>, account_id |-> << >>, name |-> "", type |-> "",
     description |-> "", entry |-> {}]

\* a cloudflare.DLPProfile
ZeroProfile ==
    [ID |-> << >>, Name |-> "", Type |-> "", Description |-> "", Entries |-> << >>]

\* what a handler leaves behind: its diagnostics or error, the calls it
\* made on the API, the resources it returned, whether it panicked
ZeroReturn ==
    [op |-> "", diags |-> << >>, err |-> << >>, calls |-> << >>,
     resources |-> << >>, panic |-> FALSE]

\* diag.FromErr
FromErr(message) == <<ErrorDiagnostic(message, << >>)>>

\* a call made on the API client, with how the API answered it
APICall(fn, id, answer) == [fn |-> fn, id |-> id, answer |-> answer]

RECURSIVE Split(_, _)
\* strings.Split
Split(str, sep) ==
    IF \A i \in DOMAIN str : str[i] # sep THEN <<str>>
    ELSE LET i == CHOOSE j \in DOMAIN str :
                      str[j] = sep /\ \A k \in 1..(j - 1) : str[k] # sep
         IN  <<SubSeq(str, 1, i - 1)>> \o Split(SubSeq(str, i + 1, Len(str)), sep)

\* the entries of the resource converted for the API, as Create and Update
\* do inside 'if entries, ok := d.GetOk("entry"); ok'
EntriesToAPI(rd) == {dlpEntryToAPI(rd.type, ReadEntry(m)) : m \in rd.entry}

\* resourceCloudflareDLPProfileRead taking every error for a missing
\* profile
resourceCloudflareDLPProfileReadAnyErrorGone(rd, get) ==
    LET made == [ZeroReturn EXCEPT !.op = "Read",
                                   !.calls = <<[fn |-> "GetDLPProfile", id |-> rd.Id,
                                                answer |-> IF get.err = "" THEN "ok"
                                                           ELSE get.err]>>]
    IN  IF get.err # ""
        THEN [d |-> [rd EXCEPT !.Id = << >>], ret |-> made]
        ELSE [d |-> [rd EXCEPT !.name = get.profile.Name,
                               !.type = get.profile.Type,
                               !.description = IF get.profile.Description # ""
                                               THEN get.profile.Description ELSE @,
                               !.entry = {dlpEntryToSchema(get.profile.Entries[i]) :
                                             i \in DOMAIN get.profile.Entries}],
              ret |-> made]

\* get is the answer of client.GetDLPProfile
resourceCloudflareDLPProfileRead(rd, get) ==
    LET made == [ZeroReturn EXCEPT !.op = "Read",
                                   !.calls = <<APICall("GetDLPProfile", rd.Id,
                                       IF get.err = "" THEN "ok" ELSE get.err)>>]
    IN  IF get.err = "notfound"
        THEN [d |-> [rd EXCEPT !.Id = << >>], ret |-> made]
        ELSE IF get.err # ""
        THEN [d |-> rd,
              ret |-> [made EXCEPT !.diags = FromErr(<<"error reading DLP profile: ", get.err>>)]]
        ELSE [d |-> [rd EXCEPT !.name = get.profile.Name,
                               !.type = get.profile.Type,
                               !.description = IF get.profile.Description # ""
                                               THEN get.profile.Description ELSE @,
                               !.entry = {dlpEntryToSchema(get.profile.Entries[i]) :
                                             i \in DOMAIN get.profile.Entries}],
              ret |-> made]

\* resourceCloudflareDLPProfileCreate without the test of the profile type
\* and taking the ID before looking at the answer
resourceCloudflareDLPProfileCreateUnchecked(rd, created, get) ==
    LET answer == IF created.err THEN "error"
                  ELSE IF Len(created.profiles) = 0 THEN "empty" ELSE "ok"
        called == [ZeroReturn EXCEPT !.op = "Create",
                      !.calls = <<[fn |-> "CreateDLPProfiles", id |-> << >>,
                                   answer |-> answer]>>]
    IN  IF answer = "ok"
        THEN [d |-> [rd EXCEPT !.Id = created.profiles[1].ID], ret |-> called]
        ELSE [d |-> [rd EXCEPT !.Id = <<"pending">>],
              ret |-> [called EXCEPT !.diags = FromErr(
                  <<"error creating DLP Profile for name ", rd.name>>)]]

\* created is the answer of client.CreateDLPProfiles, get the one of the
\* GetDLPProfile of the closing read
resourceCloudflareDLPProfileCreate(rd, created, get) ==
    LET made == [ZeroReturn EXCEPT !.op = "Create"]
        called == [made EXCEPT !.calls = <<APICall("CreateDLPProfiles", << >>,
                      IF created.err THEN "error"
                      ELSE IF Len(created.profiles) = 0 THEN "empty" ELSE "ok")>>]
        read == resourceCloudflareDLPProfileRead(
                    [rd EXCEPT !.Id = created.profiles[1].ID], get)
    IN  IF rd.type = DLPProfileTypePredefined
        THEN [d |-> rd,
              ret |-> [made EXCEPT !.diags = FromErr(
                  <<"predefined DLP profiles cannot be created and must be imported">>)]]
        ELSE IF \E e \in EntriesToAPI(rd) : e.panic
        THEN [d |-> rd, ret |-> [made EXCEPT !.panic = TRUE]]
        ELSE IF created.err
        THEN [d |-> rd,
              ret |-> [called EXCEPT !.diags = FromErr(
                  <<"error creating DLP Profile for name ", rd.name>>)]]
        ELSE IF Len(created.profiles) = 0
        THEN [d |-> rd,
              ret |-> [called EXCEPT !.diags = FromErr(
                  <<"error creating DLP Profile for name ", rd.name,
                    ": no profile in response">>)]]
        ELSE [d |-> read.d,
              ret |-> [read.ret EXCEPT !.op = "Create", !.calls = called.calls \o @]]

\* updated is the answer of client.UpdateDLPProfile
resourceCloudflareDLPProfileUpdate(rd, updated, get) ==
    LET made == [ZeroReturn EXCEPT !.op = "Update"]
        called == [made EXCEPT !.calls = <<APICall("UpdateDLPProfile", rd.Id,
                      IF updated.err THEN "error"
                      ELSE IF updated.profile.ID = << >> THEN "empty" ELSE "ok")>>]
        read == resourceCloudflareDLPProfileRead(rd, get)
    IN  IF \E e \in EntriesToAPI(rd) : e.panic
        THEN [d |-> rd, ret |-> [made EXCEPT !.panic = TRUE]]
        ELSE IF updated.err
        THEN [d |-> rd,
              ret |-> [called EXCEPT !.diags = FromErr(
                  <<"error updating DLP profile for ID ">> \o rd.Id)]]
        ELSE IF updated.profile.ID = << >>
        THEN [d |-> rd,
              ret |-> [called EXCEPT !.diags = FromErr(
                  <<"failed to find DLP Profile ID in update response; resource was empty">>)]]
        ELSE [d |-> read.d,
              ret |-> [read.ret EXCEPT !.op = "Update", !.calls = called.calls \o @]]

\* resourceCloudflareDLPProfileDelete calling the API for every type
resourceCloudflareDLPProfileDeleteAnyType(rd, deleteErr, get) ==
    LET made == [ZeroReturn EXCEPT !.op = "Delete"]
        called == [made EXCEPT !.calls = <<APICall("DeleteDLPProfile", rd.Id,
                      IF deleteErr THEN "error" ELSE "ok")>>]
        read == resourceCloudflareDLPProfileRead(rd, get)
    IN  IF deleteErr
        THEN [d |-> rd,
              ret |-> [called EXCEPT !.diags = FromErr(
                  <<"error deleting DLP Profile for ID ">> \o rd.Id)]]
        ELSE [d |-> read.d, ret |-> [called EXCEPT !.calls = @ \o read.ret.calls]]

\* deleteErr tells whether client.DeleteDLPProfile returns an error
resourceCloudflareDLPProfileDelete(rd, deleteErr, get) ==
    LET made == [ZeroReturn EXCEPT !.op = "Delete"]
        called == [made EXCEPT !.calls = <<APICall("DeleteDLPProfile", rd.Id,
                      IF deleteErr THEN "error" ELSE "ok")>>]
        read == resourceCloudflareDLPProfileRead(rd, get)
    IN  IF rd.type # DLPProfileTypeCustom
        THEN [d |-> rd,
              ret |-> [made EXCEPT !.diags = FromErr(
                  <<"error deleting DLP Profile: can only delete custom profiles">>)]]
        ELSE IF deleteErr
        THEN [d |-> rd,
              ret |-> [called EXCEPT !.diags = FromErr(
                  <<"error deleting DLP Profile for ID ">> \o rd.Id)]]
        ELSE [d |-> read.d, ret |-> [called EXCEPT !.calls = @ \o read.ret.calls]]

\* resourceCloudflareDLPProfileImport asking for at least two parts
resourceCloudflareDLPProfileImportLoose(rd, get) ==
    LET made == [ZeroReturn EXCEPT !.op = "Import"]
        attributes == Split(rd.Id, "/")
    IN  IF Len(attributes) < 2
        THEN [d |-> rd, ret |-> [made EXCEPT !.err = <<"invalid id">>]]
        ELSE LET imported == [rd EXCEPT !.account_id = attributes[1],
                                        !.Id = attributes[2]]
             IN  [d |-> imported, ret |-> [made EXCEPT !.resources = <<imported>>]]

resourceCloudflareDLPProfileImport(rd, get) ==
    LET made == [ZeroReturn EXCEPT !.op = "Import"]
        attributes == Split(rd.Id, "/")
        read == resourceCloudflareDLPProfileRead(
                    [rd EXCEPT !.account_id = attributes[1], !.Id = attributes[2]], get)
    IN  IF Len(attributes) # 2
        THEN [d |-> rd,
              ret |-> [made EXCEPT !.err = <<"invalid id (">> \o rd.Id
                          \o <<") specified, should be in format ",
                               "accountID/dlpProfileID">>]]
        ELSE [d |-> read.d,
              ret |-> [made EXCEPT !.calls = read.ret.calls, !.resources = <<read.d>>]]

---------------------------------------------------------------------------
Init ==
    /\ provider \in {"framework", "sdkv2"}
    /\ env \in InitialEnvs
    /\ data = [k \in {} |-> << >>]
    /\ resp = ZeroFrame
    /\ fresh = FALSE
    /\ before = "none"
    /\ steps = 0
    /\ resource = ZeroResourceData
    /\ was = ZeroResourceData
    /\ ret = ZeroReturn
    /\ stage = "idle"
    /\ conv = << >>

\* os.Setenv / t.Setenv
Setenv ==
    /\ steps < MaxSteps
    /\ \E k \in StringEnvVars \cup IntEnvVars \cup {LogEnvVarKey} :
         \E v \in EnvValues(k) :
            /\ ~(k \in DOMAIN env /\ env[k] = v)
            /\ env' = Extend(env, k, v)
    /\ steps' = steps + 1
    /\ fresh' = FALSE
    /\ UNCHANGED <<provider, data, resp, before, dlpVars>>

\* the host reads a provider block with one more attribute set
SetAttribute ==
    /\ steps < MaxSteps
    /\ \E k \in StringAttrs \cup IntAttrs \cup BoolAttrs :
         \E v \in AttrValues(k) :
            /\ ~(k \in DOMAIN data /\ data[k] = v)
            /\ data' = Extend(data, k, v)
    /\ steps' = steps + 1
    /\ fresh' = FALSE
    /\ UNCHANGED <<provider, env, resp, before, dlpVars>>

ConfigureFramework ==
    /\ provider = "framework"
    /\ resp' = FrameworkConfigure(resp, data, env)
    /\ before' = IF fresh THEN "same" ELSE IF resp.returned THEN "other" ELSE "none"
    /\ fresh' = TRUE
    /\ UNCHANGED <<provider, env, data, steps, dlpVars>>

ConfigureSDKv2 ==
    /\ provider = "sdkv2"
    /\ resp' = SDKv2Configure(resp, data, env)
    /\ before' = IF fresh THEN "same" ELSE IF resp.returned THEN "other" ELSE "none"
    /\ fresh' = TRUE
    /\ UNCHANGED <<provider, env, data, steps, dlpVars>>

Next == Setenv \/ SetAttribute \/ ConfigureFramework \/ ConfigureSDKv2

Spec == Init /\ [][Next]_vars

---------------------------------------------------------------------------
(* The host and the resource: a planned profile is created, an imported    *)
(* one is imported; a managed one is read, updated and deleted.  The API   *)
(* answers as it pleases.                                                  *)

\* entries and profiles the API answers with
RemoteCustomEntry ==
    [ID |-> "e1", Name |-> "card", Enabled |-> <<TRUE>>,
     Pattern |-> <<[Regex |-> "[0-9]+", Validation |-> "luhn"]>>,
     Type |-> DLPProfileTypeCustom]

RemotePredefinedEntry ==
    [ID |-> "e2", Name |-> "visa", Enabled |-> << >>, Pattern |-> << >>,
     Type |-> DLPProfileTypePredefined]

RemoteProfiles ==
    {[ID |-> <<"p1">>, Name |-> "cards", Type |-> DLPProfileTypeCustom,
      Description |-> "", Entries |-> <<RemoteCustomEntry>>],
     [ID |-> <<"p1">>, Name |-> "builtin", Type |-> DLPProfileTypePredefined,
      Description |-> "shipped", Entries |-> <<RemotePredefinedEntry>>]}

GetResponses ==
    {[err |-> "notfound", profile |-> ZeroProfile],
     [err |-> "timeout", profile |-> ZeroProfile]}
        \cup {[err |-> "", profile |-> p] : p \in RemoteProfiles}

CreateResponses ==
    {[err |-> TRUE, profiles |-> << >>], [err |-> FALSE, profiles |-> << >>]}
        \cup {[err |-> FALSE, profiles |-> <<p>>] : p \in RemoteProfiles}

UpdateResponses ==
    {[err |-> TRUE, profile |-> ZeroProfile], [err |-> FALSE, profile |-> ZeroProfile]}
        \cup {[err |-> FALSE, profile |-> p] : p \in RemoteProfiles}

\* an entry block of the configuration
PlannedEntry ==
    Extend(Extend(Extend(EmptyMap, "name", "card"), "enabled", TRUE),
           "pattern", <<Extend(EmptyMap, "regex", "[0-9]+")>>)

PlannedResources ==
    {[ZeroResourceData EXCEPT !.account_id = <<"acct">>, !.name = "mine",
                              !.type = t, !.description = ds, !.entry = en] :
        t \in {DLPProfileTypeCustom, DLPProfileTypePredefined, ""},
        ds \in {"", "my profile"},
        en \in {{}, {PlannedEntry}}}

\* identifiers given to terraform import
ImportIdentifiers ==
    {<<"acct", "/", "p1">>, <<"p1">>, <<"acct", "/", "p1", "/", "e1">>,
     <<"acct", "/">>, << >>}

ImportRequests == {[ZeroResourceData EXCEPT !.Id = i] : i \in ImportIdentifiers}

InitDLP ==
    /\ provider = "sdkv2"
    /\ env = [k \in {APITokenEnvVarKey} |-> <<"fromenv">>]
    /\ data = [k \in {} |-> << >>]
    /\ resp = SDKv2Configure(ZeroFrame, data, env)
    /\ fresh = TRUE
    /\ before = "none"
    /\ steps = 0
    /\ \/ stage = "new" /\ resource \in PlannedResources
       \/ stage = "importing" /\ resource \in ImportRequests
    /\ was = resource
    /\ ret = ZeroReturn
    /\ conv = << >>

\* where the host stands after a handler that left result r
StageAfter(r) ==
    IF r.ret.panic THEN "crashed"
    ELSE IF r.ret.op = "Delete" /\ r.ret.diags = << >> THEN "gone"
    ELSE IF r.ret.op = "Import" /\ r.ret.err # << >> THEN "gone"
    ELSE IF r.d.Id # << >> THEN "managed"
    ELSE IF r.ret.op = "Create" /\ r.ret.diags # << >> THEN "new"
    ELSE "gone"

Handled(r) ==
    /\ resource' = r.d
    /\ ret' = r.ret
    /\ was' = resource
    /\ stage' = StageAfter(r)
    /\ UNCHANGED <<cfgVars, conv>>

Create ==
    /\ stage = "new"
    /\ ~resp.result.nil
    /\ \E created \in CreateResponses, get \in GetResponses :
          Handled(resourceCloudflareDLPProfileCreate(resource, created, get))

Read ==
    /\ stage = "managed"
    /\ ~resp.result.nil
    /\ \E get \in GetResponses :
          Handled(resourceCloudflareDLPProfileRead(resource, get))

Update ==
    /\ stage = "managed"
    /\ ~resp.result.nil
    /\ \E updated \in UpdateResponses, get \in GetResponses :
          Handled(resourceCloudflareDLPProfileUpdate(resource, updated, get))

Delete ==
    /\ stage = "managed"
    /\ ~resp.result.nil
    /\ \E deleteErr \in BOOLEAN, get \in GetResponses :
          Handled(resourceCloudflareDLPProfileDelete(resource, deleteErr, get))

Import ==
    /\ stage = "importing"
    /\ ~resp.result.nil
    /\ \E get \in GetResponses :
          Handled(resourceCloudflareDLPProfileImport(resource, get))

\* a pattern taken to its schema form and back, as when an entry read
\* from the API is sent again
ConvertPattern ==
    /\ \E pattern \in DLPPatterns :
          conv' = <<[in |-> pattern,
                     out |-> dlpPatternToAPI(dlpPatternToSchema(pattern))]>>
    /\ UNCHANGED <<cfgVars, resource, was, ret, stage>>

NextDLP == Create \/ Read \/ Update \/ Delete \/ Import \/ ConvertPattern

SpecDLP == InitDLP /\ [][NextDLP]_vars

---------------------------------------------------------------------------
(* Vocabulary of the properties.                                           *)

CredentialAttrs == {APIKeySchemaKey, APITokenSchemaKey, APIUserServiceKeySchemaKey}

BoundedAttrs == {RetriesSchemaKey, MinimumBackoffSchemaKey, MaximumBackoffSchemaKey}

EnvVarOf(k) ==
    CASE k = APIHostnameSchemaKey -> APIHostnameEnvVarKey
      [] k = APIBasePathSchemaKey -> APIBasePathEnvVarKey
      [] k = AccountIDSchemaKey -> AccountIDEnvVarKey
      [] k = APIKeySchemaKey -> APIKeyEnvVarKey
      [] k = APITokenSchemaKey -> APITokenEnvVarKey
      [] k = APIUserServiceKeySchemaKey -> APIUserServiceKeyEnvVarKey
      [] k = EmailSchemaKey -> EmailEnvVarKey
      [] k = RPSSchemaKey -> RPSEnvVarKey
      [] k = RetriesSchemaKey -> RetriesEnvVarKey
      [] k = MinimumBackoffSchemaKey -> MinimumBackoffEnvVar
      [] OTHER -> MaximumBackoffEnvVarKey

BuiltInDefault(k) ==
    CASE k = APIHostnameSchemaKey -> APIHostnameDefault
      [] k = APIBasePathSchemaKey -> APIBasePathDefault
      [] k = RPSSchemaKey -> RPSDefault
      [] k = RetriesSchemaKey -> RetriesDefault
      [] k = MinimumBackoffSchemaKey -> MinimumBackoffDefault
      [] k = MaximumBackoffSchemaKey -> MaximumBackoffDefault
      [] OTHER -> << >>

\* the local variable of the handler that holds the resolved field
Resolved(r, k) ==
    CASE k = APIHostnameSchemaKey -> r.baseHostname
      [] k = APIBasePathSchemaKey -> r.basePath
      [] k = AccountIDSchemaKey -> r.accountID
      [] k = APIKeySchemaKey -> r.apiKey
      [] k = APITokenSchemaKey -> r.apiToken
      [] k = APIUserServiceKeySchemaKey -> r.apiUserServiceKey
      [] k = EmailSchemaKey -> r.email
      [] k = RPSSchemaKey -> r.rps
      [] k = RetriesSchemaKey -> r.retries
      [] k = MinimumBackoffSchemaKey -> r.minBackOff
      [] OTHER -> r.maxBackOff

\* the attribute is given in the provider block, with a value other than
\* the zero value of its type
ExplicitSet(k) ==
    /\ k \in DOMAIN data
    /\ IF k \in IntAttrs THEN data[k] # 0 ELSE data[k] # << >>

ExplicitAbsent(k) == k \notin DOMAIN data

EnvSet(k) == EnvVarOf(k) \in DOMAIN env /\ env[EnvVarOf(k)] # << >>

EnvAbsent(k) == EnvVarOf(k) \notin DOMAIN env

\* the three cases of the precedence rule; an explicit zero value and an
\* empty variable are in none of them
InPrecedenceScope(k) ==
    ExplicitSet(k) \/ (ExplicitAbsent(k) /\ (EnvSet(k) \/ EnvAbsent(k)))

AsFieldValue(k, s) == IF k \in IntAttrs THEN ParseInt(s).value ELSE s

ByPrecedence(k) ==
    IF ExplicitSet(k) THEN data[k]
    ELSE IF EnvSet(k) THEN AsFieldValue(k, env[EnvVarOf(k)])
    ELSE AsFieldValue(k, BuiltInDefault(k))

\* the field has a non-empty value in the provider block or, failing that,
\* in the environment
Supplied(k) == ExplicitSet(k) \/ (ExplicitAbsent(k) /\ EnvSet(k))

\* the field has no value in the provider block nor in the environment
NotSupplied(k) == ~ExplicitSet(k) /\ ~EnvSet(k)

HasError(r) ==
    \E i \in DOMAIN r.Diagnostics : r.Diagnostics[i].Severity = "Error"

\* the client the host receives from the invocation
ClientHanded(r) ==
    IF provider = "framework"
    THEN ~r.DataSourceData.nil \/ ~r.ResourceData.nil
    ELSE ~r.result.nil

Contains(msg, sub) ==
    \E i \in 0..(Len(msg) - Len(sub)) : SubSeq(msg, i + 1, i + Len(sub)) = sub

DiagnosticNames(dg, k) == k \in Range(dg.Summary) \/ k \in Range(dg.Detail)

DiagnosticShows(dg, n) ==
    Contains(dg.Summary, FormatInt(n)) \/ Contains(dg.Detail, FormatInt(n))

Succeeded(r) == ClientHanded(r) /\ ~HasError(r)

Failed(r) == HasError(r) /\ ~ClientHanded(r)

WithinBounds(r) ==
    r.retries <= IntSize /\ r.minBackOff <= IntSize /\ r.maxBackOff <= IntSize

---------------------------------------------------------------------------
(* C1 (as stated): after a successful Configure, every field holds the     *)
(* explicit value when one is set, else the value of its environment       *)
(* variable when that is set, else the built-in default; email is looked   *)
(* at when an API key is in use.                                           *)
C1_PrecedenceEveryField ==
    (fresh /\ Succeeded(resp)) =>
        \A k \in StringAttrs \cup IntAttrs :
            (/\ InPrecedenceScope(k)
             /\ k = EmailSchemaKey => resp.apiKey # << >>)
                => Resolved(resp, k) = ByPrecedence(k)

(* C2 (as stated): when two or more of api_key, api_token and              *)
(* api_user_service_key are supplied, Configure fails with a diagnostic    *)
(* that names all three fields and hands out no client.                    *)
C2_TwoCredentialsRejected ==
    (fresh /\ Cardinality({k \in CredentialAttrs : Supplied(k)}) >= 2) =>
        /\ Failed(resp)
        /\ \E i \in DOMAIN resp.Diagnostics :
              \A k \in CredentialAttrs : DiagnosticNames(resp.Diagnostics[i], k)

(* C3 (as stated): when none of the three credentials is supplied,         *)
(* Configure fails with an error diagnostic that names api_key, api_token  *)
(* and api_user_service_key, and returns no client.                        *)
C3_NoCredentialNamesAllThree ==
    (fresh /\ \A k \in CredentialAttrs : NotSupplied(k)) =>
        /\ Failed(resp)
        /\ \E i \in DOMAIN resp.Diagnostics :
              \A k \in CredentialAttrs : DiagnosticNames(resp.Diagnostics[i], k)

(* C3 (amended): when none of the three credentials is supplied,           *)
(* Configure fails with exactly one error diagnostic and returns no        *)
(* client; the diagnostic names the three credential fields when retries,  *)
(* min_backoff and max_backoff are within the bound, and otherwise is the  *)
(* diagnostic of a bound check and names none of them.                     *)
C3_NoCredentialFails ==
    (fresh /\ \A k \in CredentialAttrs : NotSupplied(k)) =>
        /\ Failed(resp)
        /\ Len(resp.Diagnostics) = 1
        /\ resp.clientCalls = 0
        /\ IF WithinBounds(resp)
           THEN \A k \in CredentialAttrs : DiagnosticNames(resp.Diagnostics[1], k)
           ELSE /\ \A k \in CredentialAttrs : ~DiagnosticNames(resp.Diagnostics[1], k)
                /\ \E k \in BoundedAttrs : DiagnosticNames(resp.Diagnostics[1], k)

C3_Witness ==
    /\ fresh
    /\ \A k \in CredentialAttrs : NotSupplied(k)
    /\ WithinBounds(resp)
    /\ resp.Diagnostics # << >>
    /\ \A k \in CredentialAttrs : DiagnosticNames(resp.Diagnostics[1], k)

(* C4 (as stated): when an API key is supplied and no email is, Configure  *)
(* fails in both implementations with a diagnostic that names both email   *)
(* and api_key, and returns no client.                                     *)
C4_KeyWithoutEmailNamesBoth ==
    (fresh /\ Supplied(APIKeySchemaKey) /\ NotSupplied(EmailSchemaKey)) =>
        /\ Failed(resp)
        /\ \E i \in DOMAIN resp.Diagnostics :
              /\ DiagnosticNames(resp.Diagnostics[i], EmailSchemaKey)
              /\ DiagnosticNames(resp.Diagnostics[i], APIKeySchemaKey)

(* C5 (as stated): for each of retries, min_backoff and max_backoff, the   *)
(* other two being within the bound: a supplied value above IntSize makes  *)
(* Configure fail with a diagnostic holding the field's name and the       *)
(* value, without a client; a value equal to IntSize is accepted.          *)
C5_BoundPerField ==
    fresh =>
        \A k \in BoundedAttrs :
            (/\ \A j \in BoundedAttrs : InPrecedenceScope(j)
             /\ \A j \in BoundedAttrs \ {k} : ByPrecedence(j) <= IntSize)
                => /\ ByPrecedence(k) > IntSize =>
                        /\ Failed(resp)
                        /\ resp.clientCalls = 0
                        /\ \E i \in DOMAIN resp.Diagnostics :
                              /\ DiagnosticNames(resp.Diagnostics[i], k)
                              /\ DiagnosticShows(resp.Diagnostics[i], ByPrecedence(k))
                   /\ ByPrecedence(k) = IntSize =>
                        \A i \in DOMAIN resp.Diagnostics :
                            ~DiagnosticNames(resp.Diagnostics[i], k)

FirstInvocation ==
    IF provider = "framework"
    THEN FrameworkConfigure(ZeroFrame, data, env)
    ELSE SDKv2Configure(ZeroFrame, data, env)

C8_ClientOrDiagnostics ==
    fresh =>
        /\ Succeeded(resp) \/ Failed(resp)
        /\ resp.err # << >> => Failed(resp)
        /\ Succeeded(resp) => ~resp.client.nil
        /\ provider = "framework" =>
              /\ resp.DataSourceData = resp.ResourceData
              /\ resp.DataSourceData \in {NilClient, resp.client}
        /\ provider = "sdkv2" => resp.result \in {NilClient, resp.client}

C8_Witness == fresh /\ resp.err # << >> /\ Failed(resp) /\ resp.clientCalls > 0

(* C9: within an invocation config.Client is called at most once, and only *)
(* when the three bound checks, the email check and the credential check   *)
(* have passed; an invocation that ends on a validation diagnostic has not *)
(* called it.                                                              *)
C9_ClientBuiltAfterValidation ==
    fresh =>
        /\ resp.clientCalls <= 1
        /\ resp.clientCalls = 1 =>
              /\ WithinBounds(resp)
              /\ resp.apiKey # << >> => resp.email # << >>
              /\ ~(resp.apiKey = << >> /\ resp.apiToken = << >>
                   /\ resp.apiUserServiceKey = << >>)
        /\ (HasError(resp) /\ resp.err = << >>) => resp.clientCalls = 0

C9_Witness == fresh /\ resp.clientCalls = 1 /\ Succeeded(resp)

\* the positions of the account-scoping option among the options given to
\* config.Client
AccountOptions(r) ==
    {i \in DOMAIN r.config.Options : r.config.Options[i].kind = "UsingAccount"}

(* C10: the options given to config.Client hold the account-scoping option *)
(* for A exactly when account_id resolves to the non-empty A, which is the *)
(* explicit value or else the environment's; with account_id in neither,   *)
(* no such option is given and no diagnostic names account_id.             *)
C10_AccountOption ==
    fresh =>
        /\ resp.clientCalls = 1 =>
              /\ Cardinality(AccountOptions(resp)) =
                     IF resp.accountID # << >> THEN 1 ELSE 0
              /\ \A i \in AccountOptions(resp) :
                     resp.config.Options[i] = UsingAccount(resp.accountID)
              /\ Supplied(AccountIDSchemaKey) =>
                     resp.accountID = ByPrecedence(AccountIDSchemaKey)
              /\ NotSupplied(AccountIDSchemaKey) => AccountOptions(resp) = {}
        /\ NotSupplied(AccountIDSchemaKey) =>
              \A i \in DOMAIN resp.Diagnostics :
                  ~DiagnosticNames(resp.Diagnostics[i], AccountIDSchemaKey)

C10_Witness ==
    /\ fresh
    /\ Succeeded(resp)
    /\ ExplicitSet(AccountIDSchemaKey)
    /\ EnvSet(AccountIDSchemaKey)
    /\ \E i \in AccountOptions(resp) :
          resp.config.Options[i] = UsingAccount(data[AccountIDSchemaKey])

\* the provider block or the environment without one of its entries
Without(fn, k) == [x \in DOMAIN fn \ {k} |-> fn[x]]

\* the outcome of an invocation with provider block d and environment e
OutcomeOf(d, e) ==
    IF provider = "framework"
    THEN FrameworkConfigure(ZeroFrame, d, e)
    ELSE SDKv2Configure(ZeroFrame, d, e)

(* C11: with a provider block that holds only a token and an empty         *)
(* environment, Configure succeeds with rps and retries at their built-in  *)
(* defaults, the token in the client's configuration, and api_key, email   *)
(* and api_user_service_key empty.                                         *)
C11_TokenOnlyDefaults ==
    (/\ fresh
     /\ DOMAIN data = {APITokenSchemaKey}
     /\ data[APITokenSchemaKey] # << >>
     /\ DOMAIN env = {}) =>
        /\ Succeeded(resp)
        /\ resp.rps = ParseInt(RPSDefault).value
        /\ resp.retries = ParseInt(RetriesDefault).value
        /\ UsingRateLimit(ParseInt(RPSDefault).value)
              \in OptionsOfKind(resp.client.cfg.Options, "UsingRateLimit")
        /\ \A o \in OptionsOfKind(resp.client.cfg.Options, "UsingRetryPolicy") :
              o.ints[1] = ParseInt(RetriesDefault).value
        /\ resp.client.cfg.APIToken = data[APITokenSchemaKey]
        /\ resp.client.cfg.APIKey = << >>
        /\ resp.client.cfg.Email = << >>
        /\ resp.client.cfg.APIUserServiceKey = << >>

C11_Witness ==
    /\ fresh
    /\ DOMAIN data = {APITokenSchemaKey}
    /\ data[APITokenSchemaKey] # << >>
    /\ DOMAIN env = {}
    /\ Succeeded(resp)
    /\ resp.client.cfg.APIToken = data[APITokenSchemaKey]

\* what a backoff field resolves to from its own attribute, variable and
\* default
OwnBackoff(k) ==
    IF k \in DOMAIN data /\ (provider = "framework" \/ data[k] # 0)
    THEN data[k]
    ELSE ParseInt(GetDefaultFromEnv(env, EnvVarOf(k), BuiltInDefault(k))).value

(* C12 (as stated): the resolved minimum backoff depends only on the       *)
(* min_backoff attribute, its variable and its default, and the resolved   *)
(* maximum backoff only on the max_backoff attribute, its variable and its *)
(* default.                                                                *)
C12_BackoffsIndependent ==
    fresh =>
        /\ resp.minBackOff = OwnBackoff(MinimumBackoffSchemaKey)
        /\ resp.maxBackOff = OwnBackoff(MaximumBackoffSchemaKey)

\* the numbers given to the rate limiter and to the retry policy
TuningNumbers(r) ==
    UNION {Range(o.ints) : o \in OptionsOfKind(r.config.Options, "UsingRateLimit")
                                  \cup OptionsOfKind(r.config.Options, "UsingRetryPolicy")}

(* C13 (as stated): whenever config.Client is called, the rps given to the *)
(* rate limiter and the retries, minimum and maximum backoff given to the  *)
(* retry policy are all non-negative.                                      *)
C13_TuningNonNegative ==
    (fresh /\ resp.clientCalls = 1) => \A n \in TuningNumbers(resp) : n >= 0

(* C14 (as stated): a resolved rps above the bound of retries, min_backoff *)
(* and max_backoff makes Configure fail, and no rate limiter is built with *)
(* that value.                                                             *)
C14_RPSBounded ==
    (fresh /\ resp.rps > IntSize) =>
        /\ Failed(resp)
        /\ resp.clientCalls = 0

(* C15 (as stated): when the variable of rps, retries, min_backoff or      *)
(* max_backoff is read and holds a non-empty string that is no integer,    *)
(* Configure fails and does not build a client.                            *)
C15_InvalidIntegerReported ==
    fresh =>
        \A k \in IntAttrs :
            (/\ DOMAIN data = {}
             /\ EnvSet(k)
             /\ ParseInt(env[EnvVarOf(k)]).err)
                => Failed(resp) /\ resp.clientCalls = 0

(* C16 (as stated): a string attribute that is set to the empty string is  *)
(* passed over like an attribute that is not set, so that the outcome is   *)
(* the one of the provider block without it; an empty api_token with the   *)
(* token variable set resolves to the variable's token.                    *)
C16_EmptyExplicitPassedOver ==
    fresh =>
        /\ \A k \in StringAttrs :
              (k \in DOMAIN data /\ data[k] = << >>)
                  => resp = OutcomeOf(Without(data, k), env)
        /\ (/\ APITokenSchemaKey \in DOMAIN data
            /\ data[APITokenSchemaKey] = << >>
            /\ EnvSet(APITokenSchemaKey)
            /\ WithinBounds(resp))
               => resp.apiToken = env[APITokenEnvVarKey]

\* the fields whose variable is present and empty
EmptyVariables ==
    {k \in StringAttrs \cup IntAttrs :
        EnvVarOf(k) \in DOMAIN env /\ env[EnvVarOf(k)] = << >>}

(* C17: a variable that is present and empty acts like an absent one: the  *)
(* outcome is the one of the environment without it, and with an empty     *)
(* provider block its field resolves to the built-in default, so that an   *)
(* empty token variable beside a key and an email gives a client with the  *)
(* key, the email and no token.                                            *)
C17_EmptyVariableIsAbsent ==
    fresh =>
        \A k \in EmptyVariables :
            /\ resp = OutcomeOf(data, Without(env, EnvVarOf(k)))
            /\ (DOMAIN data = {} /\ (k = EmailSchemaKey => resp.apiKey # << >>))
                  => Resolved(resp, k) = AsFieldValue(k, BuiltInDefault(k))
            /\ (k = APITokenSchemaKey /\ ExplicitAbsent(k) /\ Succeeded(resp))
                  => resp.client.cfg.APIToken = << >>

C17_Witness ==
    /\ fresh
    /\ APITokenSchemaKey \in EmptyVariables
    /\ Succeeded(resp)
    /\ resp.client.cfg.APIKey # << >>
    /\ resp.client.cfg.Email # << >>
    /\ resp.client.cfg.APIToken = << >>

\* the first non-empty of the attribute, the variable and the default
FirstNonEmpty(k) ==
    IF k \in DOMAIN data /\ data[k] # << >> THEN data[k]
    ELSE IF EnvSet(k) THEN env[EnvVarOf(k)]
    ELSE BuiltInDefault(k)

(* C18: the base URL is "https://" followed by the resolved hostname and   *)
(* the resolved base path with nothing between or around them, it is the   *)
(* only base URL among the options given to config.Client, and the         *)
(* resolved hostname and base path are never empty.                        *)
C18_BaseURLComposition ==
    fresh =>
        /\ resp.baseHostname = FirstNonEmpty(APIHostnameSchemaKey)
        /\ resp.basePath = FirstNonEmpty(APIBasePathSchemaKey)
        /\ resp.baseHostname # << >>
        /\ resp.basePath # << >>
        /\ resp.baseURL = BaseURL(<<"https://">> \o resp.baseHostname \o resp.basePath)
        /\ resp.clientCalls = 1 =>
              OptionsOfKind(resp.config.Options, "BaseURL") = {resp.baseURL}

C18_Witness ==
    /\ fresh
    /\ Succeeded(resp)
    /\ ExplicitSet(APIHostnameSchemaKey)
    /\ EnvSet(APIBasePathSchemaKey)
    /\ BaseURL(<<"https://">> \o data[APIHostnameSchemaKey]
                  \o env[APIBasePathEnvVarKey])
          \in OptionsOfKind(resp.client.cfg.Options, "BaseURL")

\* the invocation ended on one error diagnostic, which names the fields ks
\* and no other field, before config.Client was called
OnlyDiagnostic(r, ks) ==
    /\ Len(r.Diagnostics) = 1
    /\ r.Diagnostics[1].Severity = "Error"
    /\ \A k \in StringAttrs \cup IntAttrs :
          DiagnosticNames(r.Diagnostics[1], k) <=> k \in ks
    /\ r.clientCalls = 0
    /\ ~ClientHanded(r)

APIClientLogging ==
    APIClientLoggingSchemaKey \in DOMAIN data /\ data[APIClientLoggingSchemaKey]

(* C20 (as stated): the debug option given to config.Client is the one of  *)
(* the api_client_logging attribute whatever the other inputs are, and the *)
(* attribute changes nothing but that option.                              *)
C20_DebugFromSingleFlag ==
    (fresh /\ resp.clientCalls = 1) =>
        /\ OptionsOfKind(resp.config.Options, "Debug") = {Debug(APIClientLogging)}
        /\ LET other == OutcomeOf(Without(data, APIClientLoggingSchemaKey), env)
           IN  /\ \A k \in StringAttrs \cup IntAttrs :
                     Resolved(other, k) = Resolved(resp, k)
               /\ \A kind \in {"UsingRateLimit", "UsingRetryPolicy", "BaseURL",
                                "UserAgent", "UsingAccount"} :
                     OptionsOfKind(other.config.Options, kind)
                         = OptionsOfKind(resp.config.Options, kind)

\* the check an invocation ended on, read from its diagnostic
CheckOf(r) ==
    IF r.Diagnostics = << >> THEN "none"
    ELSE IF DiagnosticNames(r.Diagnostics[1], RetriesSchemaKey) THEN "retries"
    ELSE IF DiagnosticNames(r.Diagnostics[1], MinimumBackoffSchemaKey) THEN "min_backoff"
    ELSE IF DiagnosticNames(r.Diagnostics[1], MaximumBackoffSchemaKey) THEN "max_backoff"
    ELSE IF DiagnosticNames(r.Diagnostics[1], EmailSchemaKey) THEN "email"
    ELSE IF DiagnosticNames(r.Diagnostics[1], APITokenSchemaKey) THEN "credentials"
    ELSE "client"

\* what the two implementations are compared on
Observable(r) ==
    [check |-> CheckOf(r),
     client |-> ~r.DataSourceData.nil \/ ~r.ResourceData.nil \/ ~r.result.nil,
     settings |->
        IF r.Diagnostics # << >> THEN << >>
        ELSE <<r.config.APIToken, r.config.APIKey, r.config.Email,
               r.config.APIUserServiceKey, r.rps, r.retries, r.minBackOff,
               r.maxBackOff, r.baseURL, OptionsOfKind(r.config.Options, "UsingAccount"),
               OptionsOfKind(r.config.Options, "UsingRateLimit"),
               OptionsOfKind(r.config.Options, "UsingRetryPolicy"),
               OptionsOfKind(r.config.Options, "BaseURL")>>]

(* C21 (as stated): for the same provider block and environment the        *)
(* framework handler and the sdkv2 handler both succeed or both fail, with *)
(* the same credentials, rps, retries, backoffs, base URL and account      *)
(* option on success and a diagnostic of the same check on failure.        *)
C21_ImplementationsEquivalent ==
    fresh =>
        Observable(FrameworkConfigure(ZeroFrame, data, env))
            = Observable(SDKv2Configure(ZeroFrame, data, env))

(* C22: whenever config.Client is called, the configuration holds an email *)
(* exactly when it holds an API key; an email supplied beside a token or a *)
(* user service key, without an API key, is not in the configuration.      *)
C22_EmailOnlyWithAPIKey ==
    (fresh /\ resp.clientCalls = 1) =>
        /\ (resp.config.Email # << >>) <=> (resp.config.APIKey # << >>)
        /\ resp.config.APIKey = resp.apiKey
        /\ resp.apiKey = << >> => resp.email = << >>

C22_Witness ==
    /\ fresh
    /\ Supplied(EmailSchemaKey)
    /\ NotSupplied(APIKeySchemaKey)
    /\ Supplied(APITokenSchemaKey)
    /\ resp.clientCalls = 1
    /\ Succeeded(resp)
    /\ resp.config.Email = << >>

---------------------------------------------------------------------------
(* Properties of the cloudflare_dlp_profile resource.                       *)

\* the answers the API gave to the calls of fn made by the last handler
AnswersTo(fn) == {ret.calls[i].answer : i \in {j \in DOMAIN ret.calls : ret.calls[j].fn = fn}}

\* the attributes a read touches are as they were
AttributesKept ==
    /\ resource.name = was.name
    /\ resource.type = was.type
    /\ resource.description = was.description
    /\ resource.entry = was.entry

(* C23: Create makes no CreateDLPProfiles call for a profile of type        *)
(* predefined, returns an error and leaves the ID unset; for another type  *)
(* the ID is set only after a call that succeeded with at least one        *)
(* profile, and an empty answer is an error with the ID unset.             *)
C23_CreateSetsIDOnSuccess ==
    ret.op = "Create" =>
        /\ was.type = DLPProfileTypePredefined =>
              /\ ret.calls = << >>
              /\ ret.diags # << >>
              /\ resource.Id = << >>
        /\ resource.Id # << >> => AnswersTo("CreateDLPProfiles") = {"ok"}
        /\ AnswersTo("CreateDLPProfiles") \cap {"empty", "error"} # {} =>
              /\ ret.diags # << >>
              /\ resource.Id = << >>
              /\ AnswersTo("GetDLPProfile") = {}

C23_Witness ==
    /\ ret.op = "Create"
    /\ was.type = DLPProfileTypePredefined
    /\ ret.calls = << >>
    /\ ret.diags # << >>

(* C24: Delete calls DeleteDLPProfile only for a resource of type custom;  *)
(* for any other type, the empty one included, it returns an error and     *)
(* calls nothing; after a delete call that succeeded it returns no         *)
(* diagnostic, whatever the read that follows meets.                       *)
C24_DeleteOnlyCustom ==
    ret.op = "Delete" =>
        /\ AnswersTo("DeleteDLPProfile") # {} => was.type = DLPProfileTypeCustom
        /\ was.type # DLPProfileTypeCustom =>
              /\ ret.calls = << >>
              /\ ret.diags # << >>
              /\ resource = was
        /\ "ok" \in AnswersTo("DeleteDLPProfile") =>
              /\ ret.diags = << >>
              /\ AnswersTo("GetDLPProfile") # {}
        /\ "error" \in AnswersTo("DeleteDLPProfile") =>
              /\ ret.diags # << >>
              /\ resource = was

C24_Witness ==
    /\ ret.op = "Delete"
    /\ "ok" \in AnswersTo("DeleteDLPProfile")
    /\ "timeout" \in AnswersTo("GetDLPProfile")
    /\ ret.diags = << >>

(* C25: when the API answers that the profile is not found, Read clears    *)
(* the ID, returns no error and keeps name, type, description and entry;   *)
(* on another error it returns an error diagnostic and keeps the ID and    *)
(* the attributes; on success the ID stays and name, type and entry are    *)
(* those of the answer.                                                    *)
C25_ReadOutcomes ==
    ret.op = "Read" =>
        /\ AnswersTo("GetDLPProfile") = {"notfound"} =>
              /\ resource.Id = << >>
              /\ ret.diags = << >>
              /\ AttributesKept
              /\ resource.account_id = was.account_id
        /\ AnswersTo("GetDLPProfile") = {"timeout"} =>
              /\ ret.diags # << >>
              /\ resource = was
        /\ AnswersTo("GetDLPProfile") = {"ok"} =>
              /\ ret.diags = << >>
              /\ resource.Id = was.Id
              /\ \E p \in RemoteProfiles :
                    /\ resource.name = p.Name
                    /\ resource.type = p.Type
                    /\ resource.description =
                          IF p.Description # "" THEN p.Description ELSE was.description
                    /\ resource.entry =
                          {dlpEntryToSchema(p.Entries[i]) : i \in DOMAIN p.Entries}

C25_Witness ==
    /\ ret.op = "Read"
    /\ AnswersTo("GetDLPProfile") = {"notfound"}
    /\ was.Id # << >>
    /\ was.name # ""
    /\ resource.Id = << >>
    /\ resource.name = was.name

(* C26 (as stated): for an identifier that "/" splits in exactly two       *)
(* parts Import leaves account_id the first part and the ID the second     *)
(* and returns the resource; for any other identifier it returns an error  *)
(* and leaves account_id and the ID as they were.                          *)
C26_ImportSplitsInTwo ==
    ret.op = "Import" =>
        IF Len(Split(was.Id, "/")) = 2
        THEN /\ ret.err = << >>
             /\ ret.resources = <<resource>>
             /\ resource.account_id = Split(was.Id, "/")[1]
             /\ resource.Id = Split(was.Id, "/")[2]
        ELSE /\ ret.err # << >>
             /\ ret.resources = << >>
             /\ resource.account_id = was.account_id
             /\ resource.Id = was.Id

(* C26 (amended): as above, except that the ID is the second part only     *)
(* when the read that Import ends with does not find the profile missing:  *)
(* when the API answers not found, the resource is returned with an empty  *)
(* ID; the outcome of the read is never returned as an error.              *)
C26_ImportThenRead ==
    ret.op = "Import" =>
        IF Len(Split(was.Id, "/")) = 2
        THEN /\ ret.err = << >>
             /\ ret.resources = <<resource>>
             /\ resource.account_id = Split(was.Id, "/")[1]
             /\ resource.Id = IF AnswersTo("GetDLPProfile") = {"notfound"}
                              THEN << >> ELSE Split(was.Id, "/")[2]
        ELSE /\ ret.err # << >>
             /\ ret.resources = << >>
             /\ ret.calls = << >>
             /\ resource = was

C26_Witness ==
    /\ ret.op = "Import"
    /\ was.Id = <<"acct", "/", "p1">>
    /\ resource.account_id = <<"acct">>
    /\ resource.Id = <<"p1">>
    /\ ret.resources = <<resource>>

(* C27 (as stated): a pattern converted to its schema form and back is     *)
(* converted without a panic and comes back as it was, also with an empty  *)
(* Regex or an empty Validation.                                           *)
C27_PatternRoundTrip ==
    \A i \in DOMAIN conv :
        /\ ~conv[i].out.panic
        /\ conv[i].out.value = conv[i].in

============================================================================
